---- MODULE Spec2Model ----
(***************************************************************************)
(* Model of app.py: the Flask handler index() and the fan-out / fan-in     *)
(* pipeline analyze_medical_report(): three specialist agents run on a     *)
(* ThreadPoolExecutor, their results are collected with as_completed into  *)
(* the dict `responses`, multidisciplinary_team_agent() synthesises them,  *)
(* and the result is written to results/final_diagnosis.txt.               *)
(*                                                                         *)
(* Text is modelled as a sequence of symbols, so that strip(), the `or ""` *)
(* of call_gemini and the header concatenation are real computations.      *)
(***************************************************************************)
EXTENDS Integers, Sequences, FiniteSets, TLC

\* ------------------------------------------------------------------ bounds
\* Longest raw form value the model feeds to index().
MaxDocLen == 1

\* ------------------------------------------------------- program constants
\* A pool with one worker thread: the mutant of max_workers.
max_workers_single == Cardinality({"worker"})

\* ThreadPoolExecutor() without max_workers: min(32, cpu_count + 4) >= 5.
max_workers == 5

\* Request-handling threads of the (threaded) Flask server.
Threads == {"t1", "t2"}

\* ------------------------------------------------------------------- text
Chars == {" ", "x"}

Docs == UNION {[1..n -> Chars] : n \in 0..MaxDocLen}

IsSpace(c) == c = " "

RECURSIVE lstrip(_)
lstrip(s) == IF s # <<>> /\ IsSpace(Head(s)) THEN lstrip(Tail(s)) ELSE s

RECURSIVE rstrip(_)
rstrip(s) ==
    IF s # <<>> /\ IsSpace(s[Len(s)]) THEN rstrip(SubSeq(s, 1, Len(s) - 1)) ELSE s

\* The form value used as it came: the mutant of strip.
strip_none(s) == s

\* str.strip(): leading and trailing whitespace removed.
strip(s) == rstrip(lstrip(s))

\* A form field: request.form.get("report", "") yields "" when it is absent.
NoField == [present |-> FALSE, value |-> <<>>]

FormValues == {NoField} \cup {[present |-> TRUE, value |-> d] : d \in Docs}

form_get(field) == IF field.present THEN field.value ELSE <<>>

\* ---------------------------------------------------------------- gateway
\* response.text of generate_content: None, or a (possibly empty) text.
NoneText == [has_text |-> FALSE, text |-> <<>>]

SomeText(s) == [has_text |-> TRUE, text |-> s]

ModelTexts == {<<>>, <<"a">>, <<"b">>}

ResponseTexts == {NoneText} \cup {SomeText(s) : s \in ModelTexts}

\* `return response.text or ""`: None and "" both become "".
call_gemini_sentinel(text) ==
    IF text.has_text /\ text.text # <<>> THEN text.text ELSE <<"unavailable">>

call_gemini(text) == IF text.has_text /\ text.text # <<>> THEN text.text ELSE <<>>

\* ----------------------------------------------------------------- agents
\* agents.items() in insertion order.
agents == <<"Cardiologist", "Psychologist", "Pulmonologist">>

Roles == {agents[i] : i \in 1..Len(agents)}

Team == "Team"

\* The role-specific prompt template with the report embedded.
agent_prompt(name, medical_report) == [agent |-> name, report |-> medical_report]

NoPrompt == [agent |-> "", report |-> <<>>]

\* The team prompt template with the three reports embedded.
team_prompt(cardiologist_report, psychologist_report, pulmonologist_report) ==
    [cardiologist_report |-> cardiologist_report,
     psychologist_report |-> psychologist_report,
     pulmonologist_report |-> pulmonologist_report]

NoTeamPrompt == [cardiologist_report |-> <<>>, psychologist_report |-> <<>>,
                 pulmonologist_report |-> <<>>]

\* ------------------------------------------------------------------ dicts
EmptyDict == [k \in {} |-> <<>>]

\* d[k] = v
dict_set(d, k, v) == [x \in DOMAIN d \cup {k} |-> IF x = k THEN v ELSE d[x]]

\* d.get(k, default)
dict_get(d, k, default) == IF k \in DOMAIN d THEN d[k] ELSE default

\* d[k] read without a check: the mutant of subscript.
subscript_default(d, k) == [ok |-> TRUE, value |-> dict_get(d, k, <<>>)]

\* d[k] read: the value, or KeyError when k is not a key.
subscript(d, k) ==
    IF k \in DOMAIN d THEN [ok |-> TRUE, value |-> d[k]]
    ELSE [ok |-> FALSE, value |-> <<>>]

\* ------------------------------------------------------------------- file
Header == <<"### Final AI-Generated Educational Summary (NOT Medical Advice):\n\n">>

txt_output_path == "results/final_diagnosis.txt"

NoFile == [exists |-> FALSE, data |-> <<>>]

\* What a write of `text` at offset 0 leaves in a file holding `data`.
overlay(text, data) ==
    IF Len(data) > Len(text) THEN text \o SubSeq(data, Len(text) + 1, Len(data))
    ELSE text

\* ----------------------------------------------------------------- errors
NoError == [type |-> "none", at |-> ""]

GatewayError(name) == [type |-> "GatewayError", at |-> name]

KeyError(name) == [type |-> "KeyError", at |-> name]

OSError(op) == [type |-> "OSError", at |-> op]

\* -------------------------------------------------------------- responses
\* What the caller of index() gets: the rendered template variables, the
\* mapping analyze_medical_report returned (line 610), or the exception
\* that left index() (Flask answers it with a 500 page).
NoResponse ==
    [kind |-> "none", specialist_reports |-> EmptyDict,
     cardiologist_report |-> <<>>, psychologist_report |-> <<>>,
     pulmonologist_report |-> <<>>, final_diagnosis |-> <<>>,
     output_path |-> "", error |-> NoError]

FormPage == [NoResponse EXCEPT !.kind = "form"]

InputErrorPage == [NoResponse EXCEPT !.kind = "input_error"]

ErrorPage(e) == [NoResponse EXCEPT !.kind = "raised", !.error = e]

ResultPage(specialist_reports, final_diagnosis_text, output_path) ==
    [kind |-> "rendered",
     specialist_reports |-> specialist_reports,
     cardiologist_report |-> dict_get(specialist_reports, "Cardiologist", <<>>),
     psychologist_report |-> dict_get(specialist_reports, "Psychologist", <<>>),
     pulmonologist_report |-> dict_get(specialist_reports, "Pulmonologist", <<>>),
     final_diagnosis |-> final_diagnosis_text,
     output_path |-> output_path,
     error |-> NoError]

\* ------------------------------------------------------------------ state
VARIABLES
    live,            \* threads that serve requests
    pc,              \* pc[t]: where thread t is in index()/analyze_medical_report()
    req,             \* req[t]: the HTTP request being served
    report,          \* report[t]: the stripped document
    futures,         \* futures[t]: the submitted futures, in submission order
    waiter,          \* waiter[t]: what the as_completed generator has seen
    responses,       \* responses[t]: the dict filled by the as_completed loop
    order,           \* order[t]: the keys of responses[t] in insertion order
    exc,             \* exc[t]: the exception propagating out of the with block
    prompt,          \* prompt[t]: the team prompt of the synthesis call
    final_text,      \* final_text[t]: final_diagnosis_text
    resp,            \* resp[t]: what the request's caller got
    gw_calls,        \* gw_calls[t][k]: model calls started for role k / Team
    dir_exists,      \* the directory results/ exists
    file,            \* results/final_diagnosis.txt
    file_before      \* file_before[t]: the file when the request arrived

vars == <<live, pc, req, report, futures, waiter, responses, order, exc, prompt, final_text,
          resp, gw_calls, dir_exists, file, file_before>>

NoRequest == [method |-> "", field |-> NoField]

NoCalls == [k \in Roles \cup {Team} |-> 0]

\* The as_completed generator before its first step: no waiter is installed.
NoWaiter == [installed |-> FALSE, snapshot |-> {}, finished_futures |-> <<>>]

Init ==
    /\ live = {"t1"}
    /\ pc = [t \in Threads |-> "idle"]
    /\ req = [t \in Threads |-> NoRequest]
    /\ report = [t \in Threads |-> <<>>]
    /\ futures = [t \in Threads |-> <<>>]
    /\ waiter = [t \in Threads |-> NoWaiter]
    /\ responses = [t \in Threads |-> EmptyDict]
    /\ order = [t \in Threads |-> <<>>]
    /\ exc = [t \in Threads |-> NoError]
    /\ prompt = [t \in Threads |-> NoTeamPrompt]
    /\ final_text = [t \in Threads |-> <<>>]
    /\ resp = [t \in Threads |-> NoResponse]
    /\ gw_calls = [t \in Threads |-> NoCalls]
    /\ dir_exists = FALSE
    /\ file = NoFile
    /\ file_before = [t \in Threads |-> NoFile]

\* ---------------------------------------------------------------- futures
NewFuture(name) ==
    [name |-> name, st |-> "pending", prompt |-> NoPrompt, response |-> NoneText,
     result |-> <<>>, yielded |-> FALSE, failed_first |-> FALSE]

\* A future counted as finished only when its call returned: the mutant of
\* Done.
Done_returned_only(f) == f.st = "ok"

Done(f) == f.st \in {"ok", "failed"}

Running(fs) == {i \in 1..Len(fs) : fs[i].st = "running"}

\* A finishing future notifies the installed waiter, which appends it to
\* finished_futures.
add_result(w, i) ==
    IF w.installed THEN [w EXCEPT !.finished_futures = Append(@, i)] ELSE w

\* The futures the generator has in hand, latest first: the mutant of
\* as_completed_ready.
as_completed_ready_latest(w, fs) ==
    LET snap == {i \in w.snapshot : ~fs[i].yielded} IN
    IF snap # {} THEN snap
    ELSE IF w.finished_futures # <<>>
         THEN {w.finished_futures[Len(w.finished_futures)]}
         ELSE {}

\* The futures the generator may yield next: those that had finished when
\* it started, in the order of a set, and then the others in the order in
\* which they finish.
as_completed_ready(w, fs) ==
    LET snap == {i \in w.snapshot : ~fs[i].yielded} IN
    IF snap # {} THEN snap
    ELSE IF w.finished_futures # <<>> THEN {Head(w.finished_futures)}
         ELSE {}

\* finished_futures without the future that was yielded.
without(q, i) == SelectSeq(q, LAMBDA x : x # i)

\* The k-th future yielded is filed under the k-th name: the mutant of
\* future_to_name.
future_to_name_by_order(fs, i) ==
    agents[Cardinality({j \in 1..Len(fs) : fs[j].yielded}) + 1]

\* future_to_name[future]
future_to_name(fs, i) == fs[i].name

\* shutdown(wait=False): the mutant of shutdown_wait.
shutdown_nowait(fs) == TRUE

\* executor.shutdown(wait=True) returns once every worker has finished.
shutdown_wait(fs) == \A i \in 1..Len(fs) : Done(fs[i])

\* A failed future read as a placeholder text: the mutant of future_result.
future_result_sentinel(f) ==
    IF f.st = "ok" THEN [raised |-> FALSE, value |-> f.result]
    ELSE [raised |-> FALSE, value |-> <<"unavailable">>]

\* future.result(): the stored result, or the stored exception re-raised.
future_result(f) ==
    IF f.st = "ok" THEN [raised |-> FALSE, value |-> f.result]
    ELSE [raised |-> TRUE, value |-> <<>>]

\* The keyword arguments of lines 168-170, evaluated in order: the three
\* texts, or the KeyError of the first subscript that fails.
team_args(d) ==
    LET c == subscript(d, "Cardiologist")
        p == subscript(d, "Psychologist")
        u == subscript(d, "Pulmonologist")
    IN  IF ~c.ok THEN [error |-> KeyError("Cardiologist"), prompt |-> NoTeamPrompt]
        ELSE IF ~p.ok THEN [error |-> KeyError("Psychologist"), prompt |-> NoTeamPrompt]
        ELSE IF ~u.ok THEN [error |-> KeyError("Pulmonologist"), prompt |-> NoTeamPrompt]
        ELSE [error |-> NoError, prompt |-> team_prompt(c.value, p.value, u.value)]

\* The team report filed in the same dict: the mutant of analyze_return.
analyze_return_with_team(d, text) ==
    [responses |-> dict_set(d, Team, text), final_diagnosis_text |-> text,
     txt_output_path |-> txt_output_path]

\* Line 182: return responses, final_diagnosis_text, txt_output_path
analyze_return(d, text) ==
    [responses |-> d, final_diagnosis_text |-> text, txt_output_path |-> txt_output_path]

\* ----------------------------------------------------------------- index()
\* A thread takes the next request: everything local to the previous one
\* is gone.
Fresh(t, r, next_pc, page) ==
    /\ req' = [req EXCEPT ![t] = r]
    /\ pc' = [pc EXCEPT ![t] = next_pc]
    /\ resp' = [resp EXCEPT ![t] = page]
    /\ futures' = [futures EXCEPT ![t] = <<>>]
    /\ waiter' = [waiter EXCEPT ![t] = NoWaiter]
    /\ responses' = [responses EXCEPT ![t] = EmptyDict]
    /\ order' = [order EXCEPT ![t] = <<>>]
    /\ exc' = [exc EXCEPT ![t] = NoError]
    /\ prompt' = [prompt EXCEPT ![t] = NoTeamPrompt]
    /\ final_text' = [final_text EXCEPT ![t] = <<>>]
    /\ gw_calls' = [gw_calls EXCEPT ![t] = NoCalls]
    /\ file_before' = [file_before EXCEPT ![t] = file]
    /\ UNCHANGED <<live, dir_exists, file>>

Accepting(t) == t \in live /\ pc[t] \in {"idle", "responded"}

index_GET(t) ==
    /\ Accepting(t)
    /\ report' = [report EXCEPT ![t] = <<>>]
    /\ Fresh(t, [method |-> "GET", field |-> NoField], "responded", FormPage)

index_POST(t) ==
    /\ Accepting(t)
    /\ \E field \in FormValues :
         LET r == strip(form_get(field)) IN
         /\ report' = [report EXCEPT ![t] = r]
         /\ IF r = <<>>
            THEN Fresh(t, [method |-> "POST", field |-> field], "responded",
                       InputErrorPage)
            ELSE Fresh(t, [method |-> "POST", field |-> field], "submit", NoResponse)

\* ------------------------------------------------- analyze_medical_report()
\* One executor.submit(func, medical_report) of the dict comprehension.
submit(t) ==
    /\ pc[t] = "submit"
    /\ LET i == Len(futures[t]) + 1 IN
       /\ futures' = [futures EXCEPT ![t] = Append(@, NewFuture(agents[i]))]
       /\ pc' = [pc EXCEPT ![t] = IF i = Len(agents) THEN "as_completed" ELSE "submit"]
    /\ UNCHANGED <<live, waiter, req, report, responses, order, exc, prompt, final_text, resp,
                   gw_calls, dir_exists, file, file_before>>

\* A worker that puts the first specialist's finished report into the later
\* specialists' prompts: the mutant of worker_run.
worker_run_shared_context(t, i) ==
    /\ i \in 1..Len(futures[t])
    /\ futures[t][i].st = "pending"
    /\ Cardinality(Running(futures[t])) < max_workers
    /\ futures' = [futures EXCEPT
                     ![t][i].st = "running",
                     ![t][i].prompt =
                         agent_prompt(agents[i],
                                      report[t] \o (IF i > 1 /\ futures[t][1].st = "ok"
                                                    THEN futures[t][1].result
                                                    ELSE <<>>))]
    /\ gw_calls' = [gw_calls EXCEPT ![t][agents[i]] = @ + 1]
    /\ UNCHANGED <<live, waiter, pc, req, report, responses, order, exc, prompt, final_text, resp,
                   dir_exists, file, file_before>>

\* A pool worker picks the work item up: the agent builds its prompt and
\* enters call_gemini.
worker_run(t, i) ==
    /\ i \in 1..Len(futures[t])
    /\ futures[t][i].st = "pending"
    /\ Cardinality(Running(futures[t])) < max_workers
    /\ futures' = [futures EXCEPT ![t][i].st = "running",
                                  ![t][i].prompt = agent_prompt(agents[i], report[t])]
    /\ gw_calls' = [gw_calls EXCEPT ![t][agents[i]] = @ + 1]
    /\ UNCHANGED <<live, waiter, pc, req, report, responses, order, exc, prompt, final_text, resp,
                   dir_exists, file, file_before>>

\* The worker storing its own result into the mapping as soon as its call
\* returns: the mutant of generate_returns.
generate_returns_stores(t, i) ==
    /\ i \in 1..Len(futures[t])
    /\ futures[t][i].st = "running"
    /\ \E text \in ResponseTexts :
         futures' = [futures EXCEPT ![t][i].st = "ok",
                                    ![t][i].response = text,
                                    ![t][i].result = call_gemini(text)]
    /\ waiter' = [waiter EXCEPT ![t] = add_result(@, i)]
    /\ responses' = [responses EXCEPT ![t] =
                        dict_set(@, agents[i], futures'[t][i].result)]
    /\ UNCHANGED <<live, pc, req, report, order, exc, prompt, final_text, resp,
                   gw_calls, dir_exists, file, file_before>>

\* generate_content returns; call_gemini returns `response.text or ""`.
generate_returns(t, i) ==
    /\ i \in 1..Len(futures[t])
    /\ futures[t][i].st = "running"
    /\ \E text \in ResponseTexts :
         futures' = [futures EXCEPT ![t][i].st = "ok",
                                    ![t][i].response = text,
                                    ![t][i].result = call_gemini(text)]
    /\ waiter' = [waiter EXCEPT ![t] = add_result(@, i)]
    /\ UNCHANGED <<live, pc, req, report, responses, order, exc, prompt, final_text, resp,
                   gw_calls, dir_exists, file, file_before>>

\* A failed call put back on the queue to be tried again: the mutant of
\* generate_raises.
generate_raises_retry(t, i) ==
    /\ i \in 1..Len(futures[t])
    /\ futures[t][i].st = "running"
    /\ futures' = [futures EXCEPT ![t][i].st = "pending"]
    /\ UNCHANGED <<live, waiter, pc, req, report, responses, order, exc, prompt, final_text, resp,
                   gw_calls, dir_exists, file, file_before>>

\* generate_content raises: the exception is stored in the future.
generate_raises(t, i) ==
    /\ i \in 1..Len(futures[t])
    /\ futures[t][i].st = "running"
    /\ futures' = [futures EXCEPT
                     ![t][i].st = "failed",
                     ![t][i].failed_first =
                         \A j \in 1..Len(futures[t]) : futures[t][j].st # "failed"]
    /\ waiter' = [waiter EXCEPT ![t] = add_result(@, i)]
    /\ UNCHANGED <<live, pc, req, report, responses, order, exc, prompt, final_text, resp,
                   gw_calls, dir_exists, file, file_before>>

\* The first step of the as_completed generator: it notes the futures that
\* have finished already and installs its waiter on the others.
as_completed_start(t) ==
    /\ pc[t] = "as_completed"
    /\ ~waiter[t].installed
    /\ waiter' = [waiter EXCEPT ![t] =
                    [installed |-> TRUE,
                     snapshot |-> {i \in 1..Len(futures[t]) : Done(futures[t][i])},
                     finished_futures |-> <<>>]]
    /\ UNCHANGED <<live, pc, req, report, futures, responses, order, exc, prompt,
                   final_text, resp, gw_calls, dir_exists, file, file_before>>

\* The loop storing into one mapping shared by all requests (a module-level
\* dict instead of the local of line 153): the mutant of as_completed_next.
as_completed_next_shared(t) ==
    /\ pc[t] = "as_completed"
    /\ waiter[t].installed
    /\ \E i \in as_completed_ready(waiter[t], futures[t]) :
         LET f == futures[t][i]
             name == future_to_name(futures[t], i)
             last == \A j \in 1..Len(futures[t]) : j = i \/ futures[t][j].yielded
         IN
         /\ Done(f)
         /\ ~f.yielded
         /\ futures' = [futures EXCEPT ![t][i].yielded = TRUE]
         /\ IF ~future_result(f).raised
            THEN /\ responses' = [u \in Threads |->
                                    dict_set(responses[u], name, future_result(f).value)]
                 /\ order' = [order EXCEPT ![t] =
                                IF name \in DOMAIN responses[t] THEN @ ELSE Append(@, name)]
                 /\ exc' = exc
                 /\ pc' = [pc EXCEPT ![t] = IF last THEN "exit_with" ELSE "as_completed"]
                 /\ waiter' = [waiter EXCEPT ![t] =
                                 IF last THEN NoWaiter
                                 ELSE [@ EXCEPT !.finished_futures = without(@, i)]]
            ELSE /\ UNCHANGED <<responses, order>>
                 /\ exc' = [exc EXCEPT ![t] = GatewayError(f.name)]
                 /\ pc' = [pc EXCEPT ![t] = "exit_with"]
                 /\ waiter' = [waiter EXCEPT ![t] = NoWaiter]
    /\ UNCHANGED <<live, req, report, prompt, final_text, resp, gw_calls, dir_exists,
                   file, file_before>>

\* One iteration of `for future in as_completed(future_to_name)`:
\* a finished future is yielded, and future.result() returns or raises.
\* Leaving the loop closes the generator, which removes its waiter.
as_completed_next(t) ==
    /\ pc[t] = "as_completed"
    /\ waiter[t].installed
    /\ \E i \in as_completed_ready(waiter[t], futures[t]) :
         LET f == futures[t][i]
             name == future_to_name(futures[t], i)
             last == \A j \in 1..Len(futures[t]) : j = i \/ futures[t][j].yielded
         IN
         /\ Done(f)
         /\ ~f.yielded
         /\ futures' = [futures EXCEPT ![t][i].yielded = TRUE]
         /\ IF ~future_result(f).raised
            THEN /\ responses' = [responses EXCEPT ![t] =
                                    dict_set(@, name, future_result(f).value)]
                 /\ order' = [order EXCEPT ![t] =
                                IF name \in DOMAIN responses[t] THEN @ ELSE Append(@, name)]
                 /\ exc' = exc
                 /\ pc' = [pc EXCEPT ![t] = IF last THEN "exit_with" ELSE "as_completed"]
                 /\ waiter' = [waiter EXCEPT ![t] =
                                 IF last THEN NoWaiter
                                 ELSE [@ EXCEPT !.finished_futures = without(@, i)]]
            ELSE /\ UNCHANGED <<responses, order>>
                 /\ exc' = [exc EXCEPT ![t] = GatewayError(f.name)]
                 /\ pc' = [pc EXCEPT ![t] = "exit_with"]
                 /\ waiter' = [waiter EXCEPT ![t] = NoWaiter]
    /\ UNCHANGED <<live, req, report, prompt, final_text, resp, gw_calls, dir_exists,
                   file, file_before>>

\* ThreadPoolExecutor.__exit__: shutdown(wait=True), then the pending
\* exception, if any, leaves analyze_medical_report and index.
executor_exit(t) ==
    /\ pc[t] = "exit_with"
    /\ shutdown_wait(futures[t])
    /\ IF exc[t] # NoError
       THEN /\ resp' = [resp EXCEPT ![t] = ErrorPage(exc[t])]
            /\ pc' = [pc EXCEPT ![t] = "responded"]
       ELSE /\ resp' = resp
            /\ pc' = [pc EXCEPT ![t] = "team"]
    /\ UNCHANGED <<live, req, report, futures, waiter, responses, order, exc, prompt, final_text,
                   gw_calls, dir_exists, file, file_before>>

\* The synthesis call issued from inside the collection loop, reading
\* responses with defaults: the mutant of team_call.
team_call_early(t) ==
    /\ pc[t] \in {"as_completed", "team"}
    /\ prompt' = [prompt EXCEPT ![t] =
                    team_prompt(dict_get(responses[t], "Cardiologist", <<>>),
                                dict_get(responses[t], "Psychologist", <<>>),
                                dict_get(responses[t], "Pulmonologist", <<>>))]
    /\ gw_calls' = [gw_calls EXCEPT ![t][Team] = @ + 1]
    /\ pc' = [pc EXCEPT ![t] = "team_wait"]
    /\ UNCHANGED <<live, req, report, futures, waiter, responses, order, exc, resp, final_text,
                   dir_exists, file, file_before>>

\* The output file opened for writing before the synthesis call: the
\* mutant of team_call.
team_call_opens_first(t) ==
    /\ pc[t] = "team"
    /\ team_args(responses[t]).error = NoError
    /\ file' = [exists |-> TRUE, data |-> <<>>]
    /\ dir_exists' = TRUE
    /\ prompt' = [prompt EXCEPT ![t] = team_args(responses[t]).prompt]
    /\ gw_calls' = [gw_calls EXCEPT ![t][Team] = @ + 1]
    /\ pc' = [pc EXCEPT ![t] = "team_wait"]
    /\ UNCHANGED <<live, req, report, futures, waiter, responses, order, exc, resp, final_text,
                   file_before>>

\* Lines 167-171: the three responses[...] subscripts are evaluated, then
\* multidisciplinary_team_agent builds its prompt and enters call_gemini.
team_call(t) ==
    /\ pc[t] = "team"
    /\ IF team_args(responses[t]).error # NoError
       THEN /\ exc' = [exc EXCEPT ![t] = team_args(responses[t]).error]
            /\ resp' = [resp EXCEPT ![t] = ErrorPage(team_args(responses[t]).error)]
            /\ pc' = [pc EXCEPT ![t] = "responded"]
            /\ UNCHANGED <<prompt, gw_calls>>
       ELSE /\ prompt' = [prompt EXCEPT ![t] = team_args(responses[t]).prompt]
            /\ gw_calls' = [gw_calls EXCEPT ![t][Team] = @ + 1]
            /\ pc' = [pc EXCEPT ![t] = "team_wait"]
            /\ UNCHANGED <<exc, resp>>
    /\ UNCHANGED <<live, req, report, futures, waiter, responses, order, final_text, dir_exists,
                   file, file_before>>

\* An empty synthesis text refused after line 174: the mutant of
\* team_returns.
team_returns_refuses_empty(t) ==
    /\ pc[t] = "team_wait"
    /\ \E text \in ResponseTexts :
         /\ final_text' = [final_text EXCEPT ![t] = Header \o call_gemini(text)]
         /\ IF call_gemini(text) = <<>>
            THEN /\ exc' = [exc EXCEPT ![t] = [type |-> "ValueError", at |-> Team]]
                 /\ resp' = [resp EXCEPT ![t] =
                               ErrorPage([type |-> "ValueError", at |-> Team])]
                 /\ pc' = [pc EXCEPT ![t] = "responded"]
            ELSE /\ pc' = [pc EXCEPT ![t] = "makedirs"]
                 /\ UNCHANGED <<exc, resp>>
    /\ UNCHANGED <<live, req, report, futures, waiter, responses, order, prompt,
                   gw_calls, dir_exists, file, file_before>>

\* The synthesis call returns; line 174 prefixes the header.
team_returns(t) ==
    /\ pc[t] = "team_wait"
    /\ \E text \in ResponseTexts :
         final_text' = [final_text EXCEPT ![t] = Header \o call_gemini(text)]
    /\ pc' = [pc EXCEPT ![t] = "makedirs"]
    /\ UNCHANGED <<live, req, report, futures, waiter, responses, order, exc, prompt, resp, gw_calls,
                   dir_exists, file, file_before>>

\* The synthesis call raises.
team_raises(t) ==
    /\ pc[t] = "team_wait"
    /\ exc' = [exc EXCEPT ![t] = GatewayError(Team)]
    /\ resp' = [resp EXCEPT ![t] = ErrorPage(GatewayError(Team))]
    /\ pc' = [pc EXCEPT ![t] = "responded"]
    /\ UNCHANGED <<live, req, report, futures, waiter, responses, order, prompt, final_text, gw_calls,
                   dir_exists, file, file_before>>

\* An OSError leaves analyze_medical_report and index.
os_error(t, op) ==
    /\ exc' = [exc EXCEPT ![t] = OSError(op)]
    /\ resp' = [resp EXCEPT ![t] = ErrorPage(OSError(op))]
    /\ pc' = [pc EXCEPT ![t] = "responded"]

\* makedirs without exist_ok raises on an existing directory: the mutant of
\* file_exists_error.
file_exists_error_strict(exists) == exists

\* exist_ok=True: an existing directory is not an error.
file_exists_error(exists) == FALSE

\* os.makedirs("results", exist_ok=True)
makedirs(t) ==
    /\ pc[t] = "makedirs"
    /\ IF file_exists_error(dir_exists)
       THEN /\ os_error(t, "FileExistsError")
            /\ UNCHANGED dir_exists
       ELSE \/ /\ dir_exists' = TRUE
               /\ pc' = [pc EXCEPT ![t] = "open"]
               /\ UNCHANGED <<exc, resp>>
            \/ /\ os_error(t, "makedirs")
               /\ UNCHANGED dir_exists
    /\ UNCHANGED <<live, req, report, futures, waiter, responses, order, prompt, final_text, gw_calls,
                   file, file_before>>

\* The file opened without truncating it: the mutant of open_w.
open_keep(t) ==
    /\ pc[t] = "open"
    /\ dir_exists
    /\ file' = [exists |-> TRUE, data |-> file.data]
    /\ pc' = [pc EXCEPT ![t] = "write"]
    /\ UNCHANGED <<live, req, report, futures, waiter, responses, order, exc, resp,
                   prompt, final_text, gw_calls, dir_exists, file_before>>

\* open(txt_output_path, "w"): creates or truncates the file.
open_w(t) ==
    /\ pc[t] = "open"
    /\ \/ /\ dir_exists
          /\ file' = [exists |-> TRUE, data |-> <<>>]
          /\ pc' = [pc EXCEPT ![t] = "write"]
          /\ UNCHANGED <<exc, resp>>
       \/ /\ os_error(t, "open")
          /\ UNCHANGED file
    /\ UNCHANGED <<live, req, report, futures, waiter, responses, order, prompt, final_text, gw_calls,
                   dir_exists, file_before>>

\* f.write(final_diagnosis_text), the close of the with block, and the
\* return into index(), which renders the result page.
write_return(t) ==
    /\ pc[t] = "write"
    /\ \/ /\ file' = [exists |-> TRUE, data |-> overlay(final_text[t], file.data)]
          /\ LET ret == analyze_return(responses[t], final_text[t]) IN
             resp' = [resp EXCEPT ![t] =
                        ResultPage(ret.responses, ret.final_diagnosis_text,
                                   ret.txt_output_path)]
          /\ pc' = [pc EXCEPT ![t] = "responded"]
          /\ UNCHANGED exc
       \/ /\ \E n \in 0..(Len(final_text[t]) - 1) :
               file' = [exists |-> TRUE,
                        data |-> overlay(SubSeq(final_text[t], 1, n), file.data)]
          /\ os_error(t, "write")
    /\ UNCHANGED <<live, req, report, futures, waiter, responses, order, prompt, final_text, gw_calls,
                   dir_exists, file_before>>

\* ---------------------------------------------------------- specification
Next ==
    \E t \in Threads :
        \/ index_GET(t)
        \/ index_POST(t)
        \/ submit(t)
        \/ \E i \in 1..Len(agents) : worker_run(t, i)
        \/ \E i \in 1..Len(agents) : generate_returns(t, i)
        \/ \E i \in 1..Len(agents) : generate_raises(t, i)
        \/ as_completed_start(t)
        \/ as_completed_next(t)
        \/ executor_exit(t)
        \/ team_call(t)
        \/ team_returns(t)
        \/ team_raises(t)
        \/ makedirs(t)
        \/ open_w(t)
        \/ write_return(t)

Spec == Init /\ [][Next]_vars

\* The synthesis step (lines 166-171 and the call it makes) applied to an
\* arbitrary mapping, complete or not.
Results == {call_gemini(r) : r \in ResponseTexts}

Mappings == UNION {[D -> Results] : D \in SUBSET Roles}

KeysInOrder(d) ==
    LET F[i \in 0..Len(agents)] ==
            IF i = 0 THEN <<>>
            ELSE IF agents[i] \in DOMAIN d THEN Append(F[i - 1], agents[i])
            ELSE F[i - 1]
    IN  F[Len(agents)]

InitSynth ==
    /\ live = {"t1"}
    /\ \E d \in Mappings :
         /\ responses = [t \in Threads |-> IF t = "t1" THEN d ELSE EmptyDict]
         /\ order = [t \in Threads |-> IF t = "t1" THEN KeysInOrder(d) ELSE <<>>]
    /\ pc = [t \in Threads |-> IF t = "t1" THEN "team" ELSE "idle"]
    /\ req = [t \in Threads |-> NoRequest]
    /\ report = [t \in Threads |-> <<>>]
    /\ futures = [t \in Threads |-> <<>>]
    /\ waiter = [t \in Threads |-> NoWaiter]
    /\ exc = [t \in Threads |-> NoError]
    /\ prompt = [t \in Threads |-> NoTeamPrompt]
    /\ final_text = [t \in Threads |-> <<>>]
    /\ resp = [t \in Threads |-> NoResponse]
    /\ gw_calls = [t \in Threads |-> NoCalls]
    /\ dir_exists = FALSE
    /\ file = NoFile
    /\ file_before = [t \in Threads |-> NoFile]

NextSynth ==
    \E t \in Threads :
        \/ team_call(t)
        \/ team_returns(t)
        \/ team_raises(t)

SpecSynth == InitSynth /\ [][NextSynth]_vars

\* Two requests in flight at once, each on its own server thread, from the
\* point where index() has accepted both and calls analyze_medical_report.
\* The requests carry different documents and the gateway answers the calls
\* of each request with that request's own texts; every call returns.
ConcReport(t) == IF t = "t1" THEN <<"x">> ELSE <<"x", "x">>

ConcText(t) == IF t = "t1" THEN <<"a">> ELSE <<"b">>

ConcTeamTexts(t) == IF t = "t1" THEN {<<"a">>} ELSE {<<"b">>, <<>>}

InitConc ==
    /\ live = Threads
    /\ pc = [t \in Threads |-> "submit"]
    /\ req = [t \in Threads |->
                [method |-> "POST", field |-> [present |-> TRUE, value |-> ConcReport(t)]]]
    /\ report = [t \in Threads |-> strip(ConcReport(t))]
    /\ futures = [t \in Threads |-> <<>>]
    /\ waiter = [t \in Threads |-> NoWaiter]
    /\ responses = [t \in Threads |-> EmptyDict]
    /\ order = [t \in Threads |-> <<>>]
    /\ exc = [t \in Threads |-> NoError]
    /\ prompt = [t \in Threads |-> NoTeamPrompt]
    /\ final_text = [t \in Threads |-> <<>>]
    /\ resp = [t \in Threads |-> NoResponse]
    /\ gw_calls = [t \in Threads |-> NoCalls]
    /\ dir_exists = FALSE
    /\ file = NoFile
    /\ file_before = [t \in Threads |-> NoFile]

NextConc ==
    \E t \in Threads :
        \/ submit(t)
        \/ \E i \in 1..Len(agents) : worker_run(t, i)
        \/ \E i \in 1..Len(agents) :
             generate_returns(t, i) /\ futures'[t][i].result = ConcText(t)
        \/ as_completed_start(t)
        \/ as_completed_next(t)
        \/ executor_exit(t)
        \/ team_call(t)
        \/ team_returns(t) /\ final_text'[t] \in {Header \o d : d \in ConcTeamTexts(t)}
        \/ makedirs(t) /\ exc'[t] = NoError
        \/ open_w(t) /\ exc'[t] = NoError
        \/ write_return(t) /\ exc'[t] = NoError

SpecConc == InitConc /\ [][NextConc]_vars

\* One accepted request run to its end under fair scheduling: the main
\* thread and the pool workers keep being scheduled, and every gateway call
\* eventually returns or raises.
InitLive ==
    /\ live = {"t1"}
    /\ pc = [t \in Threads |-> IF t \in live THEN "submit" ELSE "idle"]
    /\ req = [t \in Threads |->
                IF t \in live
                THEN [method |-> "POST", field |-> [present |-> TRUE, value |-> <<"x">>]]
                ELSE NoRequest]
    /\ report = [t \in Threads |-> IF t \in live THEN strip(<<"x">>) ELSE <<>>]
    /\ futures = [t \in Threads |-> <<>>]
    /\ waiter = [t \in Threads |-> NoWaiter]
    /\ responses = [t \in Threads |-> EmptyDict]
    /\ order = [t \in Threads |-> <<>>]
    /\ exc = [t \in Threads |-> NoError]
    /\ prompt = [t \in Threads |-> NoTeamPrompt]
    /\ final_text = [t \in Threads |-> <<>>]
    /\ resp = [t \in Threads |-> NoResponse]
    /\ gw_calls = [t \in Threads |-> NoCalls]
    /\ dir_exists = FALSE
    /\ file = NoFile
    /\ file_before = [t \in Threads |-> NoFile]

main_thread(t) ==
    \/ submit(t)
    \/ as_completed_start(t)
    \/ as_completed_next(t)
    \/ executor_exit(t)
    \/ team_call(t)
    \/ makedirs(t)
    \/ open_w(t)
    \/ write_return(t)

generate_content(t, i) == generate_returns(t, i) \/ generate_raises(t, i)

team_generate_content(t) == team_returns(t) \/ team_raises(t)

NextLive ==
    \E t \in Threads :
        \/ main_thread(t)
        \/ \E i \in 1..Len(agents) : worker_run(t, i)
        \/ \E i \in 1..Len(agents) : generate_content(t, i)
        \/ team_generate_content(t)

Fairness ==
    \A t \in Threads :
        /\ WF_vars(main_thread(t))
        /\ WF_vars(team_generate_content(t))
        /\ \A i \in 1..Len(agents) :
              WF_vars(worker_run(t, i)) /\ WF_vars(generate_content(t, i))

SpecLive == InitLive /\ [][NextLive]_vars /\ Fairness

\* ------------------------------------------------------------- properties
FanOut(t) == {i \in 1..Len(futures[t]) : TRUE}

\* The synthesis call of thread t's request has been issued.
TeamCalled(t) == gw_calls[t][Team] > 0

\* The future that ran the agent of role `name`.
FutureOf(t, name) == {i \in FanOut(t) : futures[t][i].prompt.agent = name}

\* C1: the synthesis call is issued only after the join: whenever it has been
\* issued, all three role entries are in the mapping, all three futures were
\* submitted, finished and collected, and none is still pending or running.
C1_SynthesisAfterJoin ==
    \A t \in Threads :
        (TeamCalled(t) \/ pc[t] \in {"team_wait", "makedirs", "open", "write"}) =>
            /\ DOMAIN responses[t] = Roles
            /\ Len(futures[t]) = Len(agents)
            /\ \A i \in FanOut(t) : Done(futures[t][i]) /\ futures[t][i].yielded

\* C1 witness: the synthesis call is in flight after a run in which the
\* first-submitted task was the last one collected.
C1_Witness ==
    /\ pc["t1"] = "team_wait"
    /\ TeamCalled("t1")
    /\ order["t1"] = <<"Psychologist", "Pulmonologist", "Cardiologist">>
    /\ \A i \in FanOut("t1") : futures["t1"][i].st = "ok"

\* C2: a request that returned normally returned a mapping whose key set is
\* exactly the three roles.
C2_KeySetExact ==
    \A t \in Threads :
        resp[t].kind = "rendered" => DOMAIN resp[t].specialist_reports = Roles

\* C2 witness: a normal return for a non-empty document whose tasks were
\* collected in an order other than the order of submission.
C2_Witness ==
    /\ resp["t1"].kind = "rendered"
    /\ report["t1"] # <<>>
    /\ order["t1"] = <<"Psychologist", "Pulmonologist", "Cardiologist">>

\* C3: once a fan-out call has raised, the synthesis call is never issued in
\* that request, and the request ends with the error and without a mapping.
C3_FailurePropagates ==
    \A t \in Threads :
        (\E i \in FanOut(t) : futures[t][i].st = "failed") =>
            /\ ~TeamCalled(t)
            /\ pc[t] \notin {"team", "team_wait", "makedirs", "open", "write"}
            /\ pc[t] = "responded" =>
                 /\ resp[t].kind = "raised"
                 /\ resp[t].error.type = "GatewayError"
                 /\ resp[t].error.at \in Roles
                 /\ resp[t].specialist_reports = EmptyDict
                 /\ resp[t].final_diagnosis = <<>>

\* C3 witness: a request that ended with a fan-out error although another
\* role's entry had already been collected.
C3_Witness ==
    /\ pc["t1"] = "responded"
    /\ resp["t1"].kind = "raised"
    /\ resp["t1"].error = GatewayError("Psychologist")
    /\ "Cardiologist" \in DOMAIN responses["t1"]

\* C4: the caller gets neither a result nor an error while a submitted task
\* is pending or running: past the with block every future has finished.
C4_BarrierOnFailure ==
    \A t \in Threads :
        pc[t] \notin {"submit", "as_completed", "exit_with"} =>
            \A i \in FanOut(t) : Done(futures[t][i])

\* C4 witness: the error reached the caller after a task that was never
\* collected had run to completion.
C4_Witness ==
    /\ pc["t1"] = "responded"
    /\ resp["t1"].kind = "raised"
    /\ \E i \in FanOut("t1") : futures["t1"][i].st = "ok" /\ ~futures["t1"][i].yielded

\* C5: the entry of role r is the text returned by the call that ran r's
\* agent, and the synthesis prompt carries each role's text in that role's
\* parameter.
C5_KeyedByName ==
    \A t \in Threads :
        /\ \A name \in DOMAIN responses[t] :
              \E i \in FutureOf(t, name) :
                  /\ futures[t][i].st = "ok"
                  /\ responses[t][name] = futures[t][i].result
        /\ TeamCalled(t) =>
              /\ \E i \in FutureOf(t, "Cardiologist") :
                    prompt[t].cardiologist_report = futures[t][i].result
              /\ \E i \in FutureOf(t, "Psychologist") :
                    prompt[t].psychologist_report = futures[t][i].result
              /\ \E i \in FutureOf(t, "Pulmonologist") :
                    prompt[t].pulmonologist_report = futures[t][i].result

\* C5 witness: the tasks were collected in an order other than the order
\* of submission, and the synthesis call is in flight with three pairwise
\* different specialist texts.
C5_Witness ==
    /\ pc["t1"] = "team_wait"
    /\ order["t1"] = <<"Pulmonologist", "Cardiologist", "Psychologist">>
    /\ prompt["t1"].cardiologist_report # prompt["t1"].psychologist_report
    /\ prompt["t1"].psychologist_report # prompt["t1"].pulmonologist_report
    /\ prompt["t1"].cardiologist_report # prompt["t1"].pulmonologist_report

\* A form value that is empty or holds only whitespace.
IsBlank(s) == \A k \in 1..Len(s) : IsSpace(s[k])

\* C6: a POST whose document is missing, empty or only whitespace is answered
\* with the error page; nothing was submitted, no model call was made and the
\* result file is as it was.
C6_BlankRejected ==
    \A t \in Threads :
        (req[t].method = "POST" /\ IsBlank(form_get(req[t].field))) =>
            /\ pc[t] = "responded"
            /\ resp[t].kind = "input_error"
            /\ futures[t] = <<>>
            /\ gw_calls[t] = NoCalls
            /\ file = file_before[t]

\* C6 witness: a whitespace-only document rejected while an earlier result
\* file exists.
C6_Witness ==
    /\ req["t1"].method = "POST"
    /\ req["t1"].field = [present |-> TRUE, value |-> <<" ">>]
    /\ resp["t1"].kind = "input_error"
    /\ file.exists

\* A model response without text: None or "".
IsEmptyResponse(r) == ~r.has_text \/ r.text = <<>>

\* The parameter of the synthesis prompt that carries role `name`.
TeamArg(p, name) ==
    IF name = "Cardiologist" THEN p.cardiologist_report
    ELSE IF name = "Psychologist" THEN p.psychologist_report
    ELSE p.pulmonologist_report

\* C7 as stated: an empty response of a fan-out call is a failure of its
\* task, and no synthesis call is issued with an empty specialist text.
C7_EmptyResponseFails ==
    \A t \in Threads :
        /\ \A i \in FanOut(t) :
              futures[t][i].st = "ok" => ~IsEmptyResponse(futures[t][i].response)
        /\ TeamCalled(t) => \A name \in Roles : TeamArg(prompt[t], name) # <<>>

\* C7 amended: an empty response (None or "") of a fan-out call is not a
\* failure: the task succeeds with the empty text, that text is the role's
\* entry and the role's parameter of the synthesis call; a request ends with
\* a fan-out error only when a fan-out call raised.
C7_EmptyResponseIsEmptyText ==
    \A t \in Threads :
        /\ \A i \in FanOut(t) :
              (Done(futures[t][i]) /\ IsEmptyResponse(futures[t][i].response)
                    /\ futures[t][i].st = "ok") =>
                 /\ futures[t][i].result = <<>>
                 /\ futures[t][i].yielded => responses[t][futures[t][i].name] = <<>>
                 /\ TeamCalled(t) => TeamArg(prompt[t], futures[t][i].name) = <<>>
        /\ (exc[t].type = "GatewayError" /\ exc[t].at \in Roles) =>
              \E i \in FanOut(t) :
                  futures[t][i].st = "failed" /\ futures[t][i].name = exc[t].at

\* C7 witness: the synthesis call is in flight although one fan-out call
\* answered None and another answered "".
C7_Witness ==
    /\ pc["t1"] = "team_wait"
    /\ futures["t1"][1].response = NoneText
    /\ futures["t1"][2].response = SomeText(<<>>)
    /\ prompt["t1"].cardiologist_report = <<>>
    /\ prompt["t1"].psychologist_report = <<>>

\* C8 as stated: when makedirs, open or write fails after the synthesis call
\* succeeded, the caller still gets the report and the mapping.
C8_ReportSurvivesPersistenceFailure ==
    \A t \in Threads :
        (pc[t] = "responded" /\ exc[t].type = "OSError") =>
            /\ resp[t].kind = "rendered"
            /\ resp[t].final_diagnosis = final_text[t]
            /\ resp[t].specialist_reports = responses[t]

\* C9: the synthesis step applied to a mapping that lacks a role ends with
\* the KeyError of a missing role and issues no model call; a synthesis call
\* that was issued carries the mapping's own entries, never a default.
C9_MissingRoleFailsLoudly ==
    \A t \in Threads :
        pc[t] \notin {"idle", "team"} =>
            /\ DOMAIN responses[t] # Roles =>
                 /\ pc[t] = "responded"
                 /\ resp[t].kind = "raised"
                 /\ resp[t].error.type = "KeyError"
                 /\ resp[t].error.at \in Roles \ DOMAIN responses[t]
                 /\ ~TeamCalled(t)
                 /\ prompt[t] = NoTeamPrompt
            /\ TeamCalled(t) =>
                 \A name \in Roles : TeamArg(prompt[t], name) = responses[t][name]

\* C9 witness: the step was applied to a mapping without Psychologist and
\* ended with that KeyError.
C9_Witness ==
    /\ DOMAIN responses["t1"] = {"Cardiologist", "Pulmonologist"}
    /\ pc["t1"] = "responded"
    /\ resp["t1"].error = KeyError("Psychologist")

\* C10: the result file is as the request found it until the request's own
\* synthesis call has returned, so a request that ends with a fan-out or
\* synthesis error leaves it as it was.
C10_FileWrittenAfterSynthesis ==
    \A t \in live :
        /\ pc[t] \in {"submit", "as_completed", "exit_with", "team", "team_wait",
                      "makedirs"} => file = file_before[t]
        /\ (pc[t] = "responded" /\ exc[t].type \in {"GatewayError", "KeyError"}) =>
              file = file_before[t]
        /\ file # file_before[t] =>
              /\ Len(final_text[t]) >= Len(Header)
              /\ TeamCalled(t)
              /\ pc[t] \in {"write", "responded"}

\* C10 witness: a request ended with the synthesis error while the report
\* of an earlier request is still in the file.
C10_Witness ==
    /\ pc["t1"] = "responded"
    /\ resp["t1"].error = GatewayError(Team)
    /\ file = [exists |-> TRUE, data |-> Header \o <<"b">>]
    /\ file = file_before["t1"]

\* C11: in one request the model is called at most once for each role and at
\* most once for the synthesis, also after a failure; a request that returned
\* normally made exactly one call for each role and one synthesis call.
C11_OneCallEach ==
    \A t \in Threads :
        /\ \A k \in Roles \cup {Team} : gw_calls[t][k] <= 1
        /\ \A i \in FanOut(t) :
              futures[t][i].st = "failed" => gw_calls[t][futures[t][i].name] = 1
        /\ resp[t].kind = "rendered" =>
              \A k \in Roles \cup {Team} : gw_calls[t][k] = 1

\* C11 witness: a normal return after four calls.
C11_Witness ==
    /\ resp["t1"].kind = "rendered"
    /\ gw_calls["t1"] = [k \in Roles \cup {Team} |-> 1]

\* The fan-out error, if any, that left thread t's with block.
FanOutError(e) == e.type = "GatewayError" /\ e.at \in Roles

\* C18 as stated: the error that reaches the caller is the error of the task
\* that failed first.
C18_EarliestErrorPropagates ==
    \A t \in Threads :
        FanOutError(exc[t]) =>
            \A i \in FanOut(t) :
                futures[t][i].name = exc[t].at => futures[t][i].failed_first

\* C18 amended: the error that reaches the caller is the error of the first
\* failed future the as_completed loop yields. That is the task that failed
\* first, unless that task and the yielded one had both failed before the
\* loop took its first step; then it may be either.
C18_FirstYieldedErrorPropagates ==
    [][\A t \in Threads :
          (exc[t] = NoError /\ FanOutError(exc'[t])) =>
              \E i \in FanOut(t) :
                  /\ futures[t][i].name = exc'[t].at
                  /\ futures[t][i].st = "failed"
                  /\ \A j \in FanOut(t) : futures[t][j].st = "failed" => ~futures[t][j].yielded
                  /\ \/ futures[t][i].failed_first
                     \/ /\ i \in waiter[t].snapshot
                        /\ \E j \in waiter[t].snapshot : futures[t][j].failed_first]_vars

\* C18 witness: two tasks failed after the loop had started, and the caller
\* got the error of the one that failed first.
C18_Witness ==
    /\ pc["t1"] = "responded"
    /\ resp["t1"].error = GatewayError("Pulmonologist")
    /\ futures["t1"][3].failed_first
    /\ futures["t1"][1].st = "failed"
    /\ "Psychologist" \in DOMAIN responses["t1"]

\* C14: after a request that succeeded with no other request in flight, the
\* file holds exactly the header followed by the synthesized text, nothing
\* of what it held before, and that text, the mapping and the path are what
\* the caller got.
C14_FileIsHeaderAndReport ==
    \A t \in live :
        resp[t].kind = "rendered" =>
            /\ file.exists
            /\ \E d \in Results : file.data = Header \o d
            /\ file.data = final_text[t]
            /\ resp[t].final_diagnosis = file.data
            /\ resp[t].specialist_reports = responses[t]
            /\ resp[t].output_path = txt_output_path

\* C14 witness: a shorter report replaced a longer one.
C14_Witness ==
    /\ resp["t1"].kind = "rendered"
    /\ file_before["t1"] = [exists |-> TRUE, data |-> Header \o <<"a">>]
    /\ file = [exists |-> TRUE, data |-> Header]

\* C15: a synthesis call that returned, with an empty text or not, never
\* makes the request fail: the request ends with the result page unless the
\* persistence raised; with an empty text the file and the returned text are
\* the bare header. The synthesis fails only when its call raises.
C15_EmptySynthesisIsValid ==
    \A t \in live :
        /\ (pc[t] = "responded" /\ final_text[t] # <<>>) =>
              \/ resp[t].kind = "rendered"
              \/ exc[t].type = "OSError"
        /\ (resp[t].kind = "rendered" /\ final_text[t] = Header) =>
              /\ file = [exists |-> TRUE, data |-> Header]
              /\ resp[t].final_diagnosis = Header
              /\ DOMAIN resp[t].specialist_reports = Roles
              /\ resp[t].output_path = txt_output_path
        /\ exc[t].at = Team => exc[t] = GatewayError(Team) /\ final_text[t] = <<>>

\* C15 witness: a request succeeded with an empty synthesis text.
C15_Witness ==
    /\ resp["t1"].kind = "rendered"
    /\ resp["t1"].final_diagnosis = Header
    /\ file.data = Header
    /\ resp["t1"].cardiologist_report = <<"a">>

\* C16: every specialist call is made with its own role's template and the
\* request's report text and nothing else, whatever the other calls have
\* returned or raised by then.
C16_IsolatedPrompts ==
    \A t \in Threads : \A i \in FanOut(t) :
        /\ futures[t][i].name = agents[i]
        /\ futures[t][i].st = "pending" => futures[t][i].prompt = NoPrompt
        /\ futures[t][i].st # "pending" =>
              futures[t][i].prompt = agent_prompt(agents[i], report[t])

\* C16 witness: the third call starts after the first returned a text and
\* the second failed, with the prompt of a call made alone.
C16_Witness ==
    /\ Len(futures["t1"]) = Len(agents)
    /\ futures["t1"][1].st = "ok" /\ futures["t1"][1].result = <<"a">>
    /\ futures["t1"][2].st = "failed"
    /\ futures["t1"][3].st = "running"
    /\ futures["t1"][3].prompt = agent_prompt("Pulmonologist", <<"x">>)

\* C17: a request that succeeds while the directory and a file with the
\* same content already exist leaves the file as it was, and the existing
\* directory is never an error.
C17_PersistIdempotent ==
    \A t \in live :
        /\ (resp[t].kind = "rendered" /\ file_before[t].exists
              /\ file_before[t].data = final_text[t]) => file = file_before[t]
        /\ exc[t] # OSError("FileExistsError")

\* C17 witness: a request rewrote the file with the content it already had.
C17_Witness ==
    /\ resp["t1"].kind = "rendered"
    /\ file_before["t1"] = [exists |-> TRUE, data |-> Header \o <<"b">>]
    /\ file = file_before["t1"]
    /\ dir_exists

\* C19: the pool never makes a submitted task wait for another one: a
\* pending task can always be started, a running one can always return, and
\* the main thread collects nothing before all three are submitted.
C19_NoTaskWaits ==
    \A t \in Threads :
        /\ max_workers >= Len(agents)
        /\ \A i \in FanOut(t) :
              /\ futures[t][i].st = "pending" => ENABLED worker_run(t, i)
              /\ futures[t][i].st = "running" => ENABLED generate_returns(t, i)
        /\ pc[t] = "submit" => responses[t] = EmptyDict /\ ~waiter[t].installed
        /\ waiter[t].installed => Len(futures[t]) = Len(agents)

\* C19 witness: the three calls are in flight at the same time.
C19_Witness ==
    /\ pc["t1"] = "as_completed"
    /\ \A i \in 1..Len(agents) : futures["t1"][i].st = "running"

\* C12: when two concurrent requests both succeed, the write that happens
\* last leaves the file holding exactly the writer's header-prefixed report.
\* (The last write is the one after which both requests have their result
\* page.)
C12_LastWriterWins ==
    [][\A t \in Threads :
          (/\ pc[t] = "write"
           /\ pc'[t] = "responded"
           /\ \A u \in Threads : resp'[u].kind = "rendered")
          => file'.data = final_text[t]]_vars

\* The state of one request: everything but the directory and the file.
Local(t) ==
    <<pc[t], req[t], report[t], futures[t], waiter[t], responses[t], order[t], exc[t],
      prompt[t], final_text[t], resp[t], gw_calls[t], file_before[t]>>

OwnResults(t) ==
    /\ report[t] = ConcReport(t)
    /\ \A i \in FanOut(t) :
          /\ futures[t][i].st # "pending" =>
                futures[t][i].prompt = agent_prompt(agents[i], ConcReport(t))
          /\ futures[t][i].st = "ok" => futures[t][i].result = ConcText(t)
    /\ \A name \in DOMAIN responses[t] :
          \E i \in FanOut(t) :
              /\ futures[t][i].name = name
              /\ futures[t][i].yielded
              /\ responses[t][name] = futures[t][i].result
    /\ prompt[t] # NoTeamPrompt =>
          prompt[t] = team_prompt(ConcText(t), ConcText(t), ConcText(t))
    /\ final_text[t] # <<>> => \E d \in ConcTeamTexts(t) : final_text[t] = Header \o d
    /\ resp[t].kind = "rendered" =>
          /\ resp[t].specialist_reports = [name \in Roles |-> ConcText(t)]
          /\ resp[t].final_diagnosis = final_text[t]

\* C13: with two requests interleaved in any way, the prompts, the mapping,
\* the synthesis prompt and the report of each request are made of that
\* request's own document and results only, and no step of one request
\* changes anything of the other request but the directory and the file.
C13_NoSharedMemory ==
    /\ [](\A t \in Threads : OwnResults(t))
    /\ [][\E t \in Threads : \A u \in Threads \ {t} : Local(u)' = Local(u)]_vars

\* C13 witness: both requests have finished, each with its own results,
\* after their fan-outs overlapped.
C13_Witness ==
    /\ resp["t1"].kind = "rendered" /\ resp["t2"].kind = "rendered"
    /\ resp["t1"].specialist_reports = [name \in Roles |-> <<"a">>]
    /\ resp["t2"].specialist_reports = [name \in Roles |-> <<"b">>]
    /\ order["t1"] # order["t2"]
    /\ file.data = resp["t2"].final_diagnosis

\* C20: under fair scheduling, with every gateway call eventually returning
\* or raising, a request that entered the pipeline ends with its result or
\* with one error; and the pipeline never gives up on a call: while a
\* fan-out call has not finished, the request is not past the executor.
C20_Terminates ==
    /\ \A t \in Threads :
          pc[t] = "submit" ~>
              (pc[t] = "responded" /\ (resp[t].kind = "rendered" \/ exc[t] # NoError))
    /\ [](\A t \in Threads : \A i \in FanOut(t) :
              futures[t][i].st \in {"pending", "running"} =>
                  pc[t] \in {"submit", "as_completed", "exit_with"})

\* C20 witness: a request ended after one call returned and two raised.
C20_Witness ==
    /\ pc["t1"] = "responded"
    /\ exc["t1"] = GatewayError("Cardiologist")
    /\ Len(futures["t1"]) = Len(agents)
    /\ futures["t1"][2].st = "ok"
    /\ futures["t1"][3].st = "failed"

\* C21: within one request an entry of the mapping is assigned only by the
\* collecting thread's loop step on a future whose call has returned, one
\* entry at a step, and an entry once assigned is never changed or removed;
\* so every entry is the result of its role's collected call, and the
\* mapping returned to the caller is the one whose three values the
\* synthesis prompt was made of.
C21_EntriesAssignedOnce ==
    /\ [](\A t \in Threads :
            /\ \A name \in DOMAIN responses[t] :
                  \E i \in FanOut(t) :
                      /\ futures[t][i].name = name
                      /\ futures[t][i].st = "ok"
                      /\ futures[t][i].yielded
                      /\ responses[t][name] = futures[t][i].result
            /\ TeamCalled(t) =>
                  /\ DOMAIN responses[t] = Roles
                  /\ \A name \in Roles : TeamArg(prompt[t], name) = responses[t][name]
            /\ resp[t].kind = "rendered" =>
                  /\ resp[t].specialist_reports = responses[t]
                  /\ \A name \in Roles :
                        TeamArg(prompt[t], name) = resp[t].specialist_reports[name])
    /\ [][\A t \in Threads :
            pc[t] \notin {"idle", "responded"} =>
                /\ \A name \in DOMAIN responses[t] :
                      /\ name \in DOMAIN responses'[t]
                      /\ responses'[t][name] = responses[t][name]
                /\ responses'[t] # responses[t] =>
                      /\ pc[t] = "as_completed"
                      /\ \E i \in FanOut(t) :
                            /\ futures[t][i].st = "ok"
                            /\ ~futures[t][i].yielded
                            /\ futures'[t][i].yielded
                            /\ DOMAIN responses'[t] =
                                  DOMAIN responses[t] \cup {futures[t][i].name}
                            /\ futures[t][i].name \notin DOMAIN responses[t]]_vars

\* C21 witness: a request rendered a mapping of three different values,
\* collected out of submission order, that its synthesis prompt was made of.
C21_Witness ==
    /\ resp["t1"].kind = "rendered"
    /\ order["t1"] = <<"Pulmonologist", "Cardiologist", "Psychologist">>
    /\ resp["t1"].specialist_reports =
          [name \in Roles |-> IF name = "Cardiologist" THEN <<"a">>
                              ELSE IF name = "Psychologist" THEN <<"b">> ELSE <<>>]
    /\ prompt["t1"] = team_prompt(<<"a">>, <<"b">>, <<>>)

====
